---- MODULE Spec2Model ----
(***************************************************************************)
(* Holi Splash: the session / shooting / refill state machine of the game  *)
(* component (BrowserSafeHoliGame's HoliGameInternal and HoliGame), with   *)
(* NPC.getColored from the models file.                                    *)
(*                                                                         *)
(* Lengths are integers in units of 0.05 world units (moveSpeed 0.15 = 3,  *)
(* range 3.0 = 60, eye height 1.7 = 34, half map 15 = 300).                *)
(*                                                                         *)
(* The component is a React function component.  Its handlers and its      *)
(* frame callback are attached inside a useEffect whose dependency list is *)
(* [isLoading, gameStarted]; the functions that are attached are the ones  *)
(* of the render in which the effect ran, so they read the values that     *)
(* gameStarted, nearWaterTank, refilling and waterLevel had in that        *)
(* render.  The variable "closure" holds those captured values; the        *)
(* functional updates setWaterLevel(prev => ...) and setScore(prev => ...) *)
(* act on the live state.                                                  *)
(***************************************************************************)
EXTENDS Integers, Sequences, FiniteSets

VARIABLES
    isLoading,          \* useState(true)
    gameStarted,        \* useState(false)
    score,              \* useState(0)
    waterLevel,         \* useState(100)
    nearWaterTank,      \* useState(false)
    refilling,          \* useState(false)
    closure,            \* values captured by the attached handlers
    listening,          \* the effect has attached the handlers and the frame loop
    refillIntervalRef,  \* 0 = null, 1 = handle of a live interval, 2 = of a cleared one
    currentWaterLevel,  \* local of startRefilling shared with its interval callback
    keysPressed,        \* keysPressed.current, as the set of keys that are true
    camera,             \* camera.position on the ground plane, [x, z]
    waterTubs,          \* positions of waterTubsRef.current
    npcs,               \* npcsRef.current: colorLevel and isColored of each NPC
    lastEvent,          \* what the last handler did (its observable outcome)
    npcKin,             \* position and moveDirection of the NPCs that are followed
    liveIntervals,      \* number of refill intervals that are set and not cleared
    effectTimers,       \* pending cosmetic timers (splash removal), if followed
    mounted,            \* the component is mounted
    rotation,           \* camera.rotation: x pitch, y yaw, z roll
    isMouseLocked       \* isMouseLocked.current

vars == << isLoading, gameStarted, score, waterLevel, nearWaterTank, refilling,
           closure, listening, refillIntervalRef, currentWaterLevel,
           keysPressed, camera, waterTubs, npcs, lastEvent, npcKin,
           liveIntervals, effectTimers, mounted, rotation, isMouseLocked >>

(***************************************************************************)
(* Bounds of the model.                                                    *)
(***************************************************************************)
NumNPCs == 2
MaxScore == 40
MaxIntersects == 2
MaxWalk == 1
MaxEffects == 1
MaxTurn == 2

(***************************************************************************)
(* Program constants.                                                      *)
(***************************************************************************)
ShotCost == 5
RefillStep == 2
FullWater == 100
HitScore == 10
MaxColorLevel == 3
moveSpeed == 3
RefillRange == 60
EyeHeight == 34
HalfMap == 300
CollisionRange == 20
StartZ == 200
Fine == 25
npcStep == 10
AvoidRange == 750
NPCHalfMap == HalfMap * Fine
SpawnClearance == 1000
SpawnHalf == 6000
PitchLimit == 1047
LookStep == 600
rotateSpeed == 30

NPCIds == 1..NumNPCs
Keys == {"w", "r"}

Min(a, b) == IF a < b THEN a ELSE b
Max(a, b) == IF a > b THEN a ELSE b

(***************************************************************************)
(* Scene graph: what raycaster.intersectObjects can return and the parent  *)
(* links handleShoot walks.  An NPC's model is a Group added to the scene, *)
(* its body parts are children of the model and splash marks are children  *)
(* of a body part.  Meshes is what the rays of Shoot meet (body parts and  *)
(* walls); SceneMeshes is every kind of mesh in the scene.                 *)
(***************************************************************************)
SceneRoot == << "scene", 0 >>
NoObject == << "null", 0 >>
Meshes == { << "body", i >> : i \in NPCIds } \cup { << "wall", 0 >> }

\* every mesh a ray can meet in the scene: body parts, walls, the splash
\* spots NPC.createCircularSplatterSpots adds under a body part ("mark") or,
\* as its fallback, under the model ("spot"), the drip meshes of
\* createDrippingEffect (a mesh in a group under a body part), the ground
\* and the parts of a water tub (meshes in a group added to the scene)
SceneMeshes ==
    Meshes \cup { << k, i >> : k \in {"mark", "spot", "dripMesh"}, i \in NPCIds }
           \cup { << "ground", 0 >>, << "tubPart", 0 >> }

Parent(o) ==
    CASE o[1] = "mark" -> << "body", o[2] >>
      [] o[1] = "body" -> << "model", o[2] >>
      [] o[1] = "model" -> SceneRoot
      [] o[1] = "wall" -> SceneRoot
      [] o[1] = "spot" -> << "model", o[2] >>
      [] o[1] = "dripMesh" -> << "drip", o[2] >>
      [] o[1] = "drip" -> << "body", o[2] >>
      [] o[1] = "ground" -> SceneRoot
      [] o[1] = "tubPart" -> << "tub", o[2] >>
      [] o[1] = "tub" -> SceneRoot
      [] OTHER -> NoObject

\* npcsRef.current.findIndex(npc => npc.model === o), 0 for -1
FindIndex(o) == IF o[1] = "model" /\ o[2] \in NPCIds THEN o[2] ELSE 0

OwnerNPCParentOnly(o) ==
    IF FindIndex(o) > 0 THEN FindIndex(o) ELSE FindIndex(Parent(o))

RECURSIVE OwnerNPC(_)
\* the while (parent) loop of handleShoot: the NPC whose model is the object
\* or one of its ancestors, 0 if there is none
OwnerNPC(o) ==
    IF o = NoObject THEN 0
    ELSE IF FindIndex(o) > 0 THEN FindIndex(o)
    ELSE OwnerNPC(Parent(o))

FirstNPCHitNearestOnly(intersects) ==
    IF intersects = << >> THEN 0 ELSE OwnerNPC(Head(intersects))

RECURSIVE FirstNPCHit(_)
\* the for-loop over intersects: the first intersection owned by an NPC
FirstNPCHit(intersects) ==
    IF intersects = << >> THEN 0
    ELSE IF OwnerNPC(Head(intersects)) > 0 THEN OwnerNPC(Head(intersects))
    ELSE FirstNPCHit(Tail(intersects))

IntersectLists == UNION { [1..n -> Meshes] : n \in 0..MaxIntersects }

\* the ray's nearest intersection anywhere in the scene, or none
SceneIntersectLists == { << >> } \cup { << o >> : o \in SceneMeshes }

(***************************************************************************)
(* World generation.                                                       *)
(***************************************************************************)
\* generateObstacles: five walls on a circle of radius size / 4, in the order
\* they are pushed to the obstacle list
ObstacleList ==
    << [x |-> 150, z |-> 0], [x |-> 46, z |-> 143], [x |-> -121, z |-> 88],
       [x |-> -121, z |-> -88], [x |-> 46, z |-> -143] >>

Obstacles == { ObstacleList[k] : k \in 1..Len(ObstacleList) }

\* one outcome of generateWaterTubs: five tubs on the edge band, 10 apart
TubLayouts ==
    { { [x |-> 48, z |-> 210], [x |-> -160, z |-> 210], [x |-> 210, z |-> 40],
        [x |-> -210, z |-> 40], [x |-> 0, z |-> -210] } }

StartCamera == [x |-> 0, z |-> StartZ]

\* places the player can walk to from the start, where the model looks at
\* the frame: the start (next to a tub), in front of the first wall, and the
\* corner of the map
CameraSamples ==
    { StartCamera, [x |-> 129, z |-> 2], [x |-> 297, z |-> -298] }
FreshNPCs == [i \in NPCIds |-> [colorLevel |-> 0, isColored |-> FALSE]]

DistSqGround(tub, cam) ==
    (tub.x - cam.x) * (tub.x - cam.x) + (tub.z - cam.z) * (tub.z - cam.z)

\* tub.position.distanceTo(camera.position) < 3.0, the tub at height 0 and
\* the camera at eye height
DistSq3D(tub, cam) ==
    (tub.x - cam.x) * (tub.x - cam.x) + (tub.z - cam.z) * (tub.z - cam.z)
        + EyeHeight * EyeHeight
PlayerNearTub(cam, tubs) ==
    \E tub \in tubs : DistSq3D(tub, cam) < RefillRange * RefillRange

Collides(cam) ==
    \E o \in Obstacles :
        (o.x - cam.x) * (o.x - cam.x) + (o.z - cam.z) * (o.z - cam.z)
            < CollisionRange * CollisionRange

ClampNone(v) == v

Clamp(v) == Max(-HalfMap, Min(HalfMap, v))

(***************************************************************************)
(* NPC kinematics (NPC.update and the NPC part of updateGame).  An NPC     *)
(* moves 0.02 per frame, so NPC coordinates are kept on a grid Fine times  *)
(* finer than the player's (0.002 world units).  moveDirection is stored   *)
(* multiplied by moveSpeed: a vector of length npcStep.                    *)
(***************************************************************************)
Abs(a) == IF a < 0 THEN -a ELSE a
Sgn(a) == IF a < 0 THEN -1 ELSE IF a > 0 THEN 1 ELSE 0

FineObstacle(k) == [x |-> ObstacleList[k].x * Fine, z |-> ObstacleList[k].z * Fine]

\* Math.sqrt, rounded down
ISqrt(n) == CHOOSE r \in 0..(2 * AvoidRange) : r * r <= n /\ (r + 1) * (r + 1) > n

\* Vector3.normalize (times moveSpeed), rounded to the grid; the zero vector
\* stays zero (divideScalar(length || 1))
Normalize(v) ==
    LET len == ISqrt(v.x * v.x + v.z * v.z)
        part(c) == Sgn(c) * ((2 * Abs(c) * npcStep + len) \div (2 * len))
    IN IF len = 0 THEN [x |-> 0, z |-> 0]
       ELSE [x |-> part(v.x), z |-> part(v.z)]

\* places an NPC can walk to, where the model looks at the frame: a spawn
\* point, two points on the edge of the avoidance range of a wall, and a
\* point half a step from the east boundary
NPCSamples ==
    { [x |-> 0, z |-> 0], [x |-> 3000, z |-> 0], [x |-> 690, z |-> 2980],
      [x |-> 7495, z |-> 0] }

\* the placement loop of setupGame: within 0.8 of the half map and at least
\* 2 away from every obstacle
SpawnPositions ==
    { p \in NPCSamples :
        /\ Abs(p.x) <= SpawnHalf /\ Abs(p.z) <= SpawnHalf
        /\ \A k \in 1..Len(ObstacleList) :
              (FineObstacle(k).x - p.x) * (FineObstacle(k).x - p.x)
                + (FineObstacle(k).z - p.z) * (FineObstacle(k).z - p.z)
                  >= SpawnClearance * SpawnClearance }

\* setRandomDirection: any unit vector; the model draws from the four axes
RandomDirections ==
    { [x |-> npcStep, z |-> 0], [x |-> -npcStep, z |-> 0],
      [x |-> 0, z |-> npcStep], [x |-> 0, z |-> -npcStep] }

OutOfBounds(p) ==
    p.x > NPCHalfMap \/ p.x < -NPCHalfMap \/ p.z > NPCHalfMap \/ p.z < -NPCHalfMap

ClampNPC(p) ==
    [x |-> Max(-NPCHalfMap, Min(NPCHalfMap, p.x)),
     z |-> Max(-NPCHalfMap, Min(NPCHalfMap, p.z))]

\* the obstacles within 1.5 of p, by their index in the obstacle list
TooClose(p) ==
    { k \in 1..Len(ObstacleList) :
        (FineObstacle(k).x - p.x) * (FineObstacle(k).x - p.x)
          + (FineObstacle(k).z - p.z) * (FineObstacle(k).z - p.z)
            < AvoidRange * AvoidRange }

\* the vector moveDirection.set(...) is given before normalize()
AvoidVectorTowards(p, o) == [x |-> o.x - p.x, z |-> o.z - p.z]

AvoidVector(p, o) == [x |-> -(o.x - p.x), z |-> -(o.z - p.z)]

\* the obstacle loop of updateGame: the first obstacle within 1.5 turns the
\* NPC away from it, and the loop ends there
Avoid(p, dir) ==
    IF TooClose(p) = {} THEN dir
    ELSE LET k == CHOOSE a \in TooClose(p) : \A b \in TooClose(p) : a <= b
         IN Normalize(AvoidVector(p, FineObstacle(k)))

\* this.position.add(moveDirection * moveSpeed)
MovedNPC(n) ==
    [x |-> n.position.x + n.moveDirection.x, z |-> n.position.z + n.moveDirection.z]

\* NPC.update followed by the clamp and the obstacle loop of updateGame: the
\* states one NPC can be in after a frame.  rerolled tells whether update
\* called setRandomDirection: always when the moved position is out of
\* bounds, otherwise when Math.random() < 0.005
NPCFrame(n) ==
    LET p1 == MovedNPC(n)
        p2 == ClampNPC(ClampNPC(p1))
    IN { [position |-> p2, moveDirection |-> Avoid(p2, d), rerolled |-> TRUE,
          gen |-> n.gen] : d \in RandomDirections }
       \cup (IF OutOfBounds(p1) THEN {}
             ELSE { [position |-> p2, moveDirection |-> Avoid(p2, n.moveDirection),
                     rerolled |-> FALSE, gen |-> n.gen] })

(***************************************************************************)
(* The refill timer.  rs is the record [refilling, ref, cur].              *)
(***************************************************************************)
RefillState ==
    [refilling |-> refilling, ref |-> refillIntervalRef, cur |-> currentWaterLevel,
     live |-> liveIntervals]

\* clearInterval(handle): a live interval stops, any other handle is ignored
Cleared(ref, live) == IF ref = 1 THEN live - 1 ELSE live

startRefillingNoClear(rs) ==
    [refilling |-> TRUE, ref |-> 1, cur |-> closure.waterLevel, live |-> rs.live + 1]

startRefilling(rs) ==
    [refilling |-> TRUE, ref |-> 1, cur |-> closure.waterLevel,
     live |-> (IF rs.ref # 0 THEN Cleared(rs.ref, rs.live) ELSE rs.live) + 1]

stopRefilling(rs) ==
    [refilling |-> FALSE, ref |-> 0, cur |-> rs.cur,
     live |-> IF rs.ref # 0 THEN Cleared(rs.ref, rs.live) ELSE rs.live]

SetRefillState(rs) ==
    /\ refilling' = rs.refilling
    /\ refillIntervalRef' = rs.ref
    /\ currentWaterLevel' = rs.cur
    /\ liveIntervals' = rs.live

\* points of the world a splash can be created at: the point where the ray
\* meets its k-th intersection (intersects[k].point), and the centre of the
\* body of NPC i (its position raised by 0.8)
NoPoint == << "none", 0 >>
ImpactPoint(k) == << "impact", k >>
CentreOf(i) == << "centre", i >>

\* cosmetic timers are followed only where effectTimers starts as a number
NotFollowed == -1

\* the outcome of a handler that casts no ray and reverts no movement
Quiet(op) ==
    [op |-> op, ray |-> FALSE, nearest |-> -1, npcOnRay |-> 0, hit |-> 0,
     first |-> NoObject, revert |-> FALSE, splash |-> NoPoint]

\* the rotation of a new camera: Euler angles 0 in the default order (lookAt
\* from the start position along -z leaves them 0)
NoRotation == [x |-> 0, y |-> 0, z |-> 0, order |-> "XYZ"]

\* the component after its first render: npcsRef.current is still empty
InitComponent ==
    /\ isLoading = TRUE
    /\ gameStarted = FALSE
    /\ score = 0
    /\ waterLevel = FullWater
    /\ nearWaterTank = FALSE
    /\ refilling = FALSE
    /\ closure = [gameStarted |-> FALSE, nearWaterTank |-> FALSE,
                  refilling |-> FALSE, waterLevel |-> FullWater]
    /\ listening = FALSE
    /\ refillIntervalRef = 0
    /\ currentWaterLevel = FullWater
    /\ keysPressed = {}
    /\ camera = StartCamera
    /\ waterTubs \in TubLayouts
    /\ npcs = FreshNPCs
    /\ lastEvent = Quiet("init")
    /\ liveIntervals = 0
    /\ effectTimers = NotFollowed
    /\ mounted = TRUE
    /\ rotation = NoRotation
    /\ isMouseLocked = FALSE

Init ==
    /\ InitComponent
    /\ npcKin = << >>


(***************************************************************************)
(* useEffect(..., [isLoading, gameStarted]): initThreeJS, setupGame, the   *)
(* frame loop and the listeners.  The attached functions belong to the     *)
(* render that ran the effect.                                             *)
(***************************************************************************)
CapturedAtRender(started) ==
    [gameStarted |-> started, nearWaterTank |-> nearWaterTank,
     refilling |-> refilling, waterLevel |-> waterLevel]

\* the effect runs when loading completes and again when the game starts
SetupRuns == 1..2

\* createNPCs and the placement loop of setupGame, for the NPCs followed; gen
\* tells which run of setupGame created the NPC object (0: none yet)
SpawnStates ==
    { [position |-> p, moveDirection |-> d, rerolled |-> TRUE, gen |-> g] :
        p \in SpawnPositions, d \in RandomDirections, g \in SetupRuns }

RunEffect(started) ==
    /\ closure' = CapturedAtRender(started)
    /\ listening' = TRUE
    /\ npcs' = FreshNPCs
    /\ waterTubs' \in TubLayouts
    /\ camera' = StartCamera
    /\ rotation' = NoRotation
    /\ npcKin' \in { f \in [DOMAIN npcKin -> SpawnStates] :
                        \A i \in DOMAIN npcKin : f[i].gen = npcKin[i].gen + 1 }

\* the cleanup the effect returns: the frame loop and the listeners go, the
\* refill interval is cleared (the ref keeps its handle); the timers of the
\* splash effects are not touched
Cleanup ==
    /\ refillIntervalRef' = IF refillIntervalRef = 1 THEN 2 ELSE refillIntervalRef
    /\ liveIntervals' = Cleared(refillIntervalRef, liveIntervals)

\* handleLoadingComplete, then the effect of the render it causes
handleLoadingComplete ==
    /\ mounted
    /\ isLoading
    /\ isLoading' = FALSE
    /\ RunEffect(gameStarted)
    /\ lastEvent' = Quiet("loaded")
    /\ UNCHANGED << gameStarted, score, waterLevel, nearWaterTank, refilling,
                    refillIntervalRef, currentWaterLevel, keysPressed,
                    liveIntervals, effectTimers, mounted, isMouseLocked >>

startGameWhileLoading ==
    /\ mounted
    /\ ~gameStarted
    /\ gameStarted' = TRUE
    /\ IF isLoading
         THEN UNCHANGED << closure, listening, npcs, waterTubs, camera, rotation,
                           npcKin, refillIntervalRef, liveIntervals >>
         ELSE RunEffect(TRUE) /\ Cleanup
    /\ lastEvent' = Quiet("start")
    /\ UNCHANGED << isLoading, score, waterLevel, nearWaterTank, refilling,
                    currentWaterLevel, keysPressed, effectTimers, mounted,
                    isMouseLocked >>

\* startGame (the Start button is rendered while not loading and not
\* started), then the effect's cleanup and its re-run
startGame ==
    /\ mounted
    /\ ~isLoading
    /\ ~gameStarted
    /\ gameStarted' = TRUE
    /\ Cleanup
    /\ RunEffect(TRUE)
    /\ lastEvent' = Quiet("start")
    /\ UNCHANGED << isLoading, score, waterLevel, nearWaterTank, refilling,
                    currentWaterLevel, keysPressed, effectTimers, mounted,
                    isMouseLocked >>

\* the component is unmounted: the effect's cleanup runs
unmount ==
    /\ mounted
    /\ mounted' = FALSE
    /\ listening' = FALSE
    /\ Cleanup
    /\ lastEvent' = Quiet("unmount")
    /\ UNCHANGED << isLoading, gameStarted, score, waterLevel, nearWaterTank,
                    refilling, closure, currentWaterLevel, keysPressed, camera,
                    waterTubs, npcs, npcKin, effectTimers, rotation, isMouseLocked >>

(***************************************************************************)
(* Keyboard.                                                               *)
(***************************************************************************)
RefillGuardUngated == ~closure.refilling

RefillGuard ==
    /\ closure.nearWaterTank
    /\ ~closure.refilling
    /\ closure.waterLevel < FullWater

handleKeyDown(key) ==
    /\ listening
    /\ lastEvent' = Quiet("other")
    /\ IF ~closure.gameStarted
         THEN UNCHANGED << keysPressed, refilling, refillIntervalRef,
                           currentWaterLevel, liveIntervals >>
         ELSE /\ keysPressed' = keysPressed \cup {key}
              /\ IF key = "r" /\ RefillGuard
                   THEN SetRefillState(startRefilling(RefillState))
                   ELSE UNCHANGED << refilling, refillIntervalRef,
                                     currentWaterLevel, liveIntervals >>
    /\ UNCHANGED << isLoading, gameStarted, score, waterLevel, nearWaterTank,
                    closure, listening, camera, waterTubs, npcs, npcKin,
                    effectTimers, mounted, rotation, isMouseLocked >>

handleKeyUp(key) ==
    /\ listening
    /\ lastEvent' = Quiet("other")
    /\ IF ~closure.gameStarted
         THEN UNCHANGED << keysPressed, refilling, refillIntervalRef,
                           currentWaterLevel, liveIntervals >>
         ELSE /\ keysPressed' = keysPressed \ {key}
              /\ IF key = "r" /\ closure.refilling
                   THEN SetRefillState(stopRefilling(RefillState))
                   ELSE UNCHANGED << refilling, refillIntervalRef,
                                     currentWaterLevel, liveIntervals >>
    /\ UNCHANGED << isLoading, gameStarted, score, waterLevel, nearWaterTank,
                    closure, listening, camera, waterTubs, npcs, npcKin,
                    effectTimers, mounted, rotation, isMouseLocked >>

(***************************************************************************)
(* The interval callback created by startRefilling (every 100 ms).         *)
(***************************************************************************)
RefillLevel(cur) == Min(FullWater, cur + RefillStep)

refillTick ==
    /\ liveIntervals > 0
    /\ LET cur == RefillLevel(currentWaterLevel)
           rs == [RefillState EXCEPT !.cur = cur]
       IN /\ waterLevel' = cur
          /\ SetRefillState(IF cur >= FullWater THEN stopRefilling(rs) ELSE rs)
    /\ lastEvent' = Quiet("refillTick")
    /\ UNCHANGED << isLoading, gameStarted, score, nearWaterTank, closure,
                    listening, keysPressed, camera, waterTubs, npcs, npcKin,
                    effectTimers, mounted, rotation, isMouseLocked >>

(***************************************************************************)
(* updateGame, once per animation frame.                                   *)
(***************************************************************************)
Held(k) == k \in keysPressed

\* 1000 * sin and 1000 * cos of an angle in 0.001 rad, by their power series
\* (exact to 2 in 1000 for angles up to 1.8 rad)
Sin1000(a) ==
    LET t == Abs(a)
        t2 == (t * t) \div 1000
        t3 == (t * t2) \div 6000
        t5 == (t3 * t2) \div 20000
        t7 == (t5 * t2) \div 42000
    IN Sgn(a) * (t - t3 + t5 - t7)

Cos1000(a) ==
    LET t2 == (a * a) \div 1000
        c2 == t2 \div 2
        c4 == (t2 * t2) \div 24000
        c6 == (c4 * t2) \div 30000
        c8 == (c6 * t2) \div 56000
    IN 1000 - c2 + c4 - c6 + c8

\* one component of direction.multiplyScalar(moveSpeed), rounded to the grid
StepAlong(c1000) == Sgn(c1000) * ((moveSpeed * Abs(c1000) + 500) \div 1000)

\* forward = (0, 0, -1) and right = (1, 0, 0) turned by the camera, flattened
\* to the ground plane and normalized: they depend on the yaw only
Forward(yaw) == [x |-> StepAlong(-Sin1000(yaw)), z |-> StepAlong(-Cos1000(yaw))]
Right(yaw) == [x |-> StepAlong(Cos1000(yaw)), z |-> StepAlong(-Sin1000(yaw))]

\* camera.position after the movement keys
MovedCamera ==
    LET f == Forward(rotation.y)
        r == Right(rotation.y)
        ahead == (IF Held("w") \/ Held("arrowup") THEN 1 ELSE 0)
                   - (IF Held("s") \/ Held("arrowdown") THEN 1 ELSE 0)
        aside == (IF Held("d") \/ Held("arrowright") THEN 1 ELSE 0)
                   - (IF Held("a") \/ Held("arrowleft") THEN 1 ELSE 0)
    IN [x |-> camera.x + ahead * f.x + aside * r.x,
        z |-> camera.z + ahead * f.z + aside * r.z]

Moved ==
    \E k \in {"w", "arrowup", "s", "arrowdown", "a", "arrowleft", "d", "arrowright",
              "q", "e"} : Held(k)

\* resetCameraOrientation: Euler order yaw-pitch-roll and roll 0
resetCameraOrientation(r) == [r EXCEPT !.order = "YXZ", !.z = 0]

\* a started frame resets the orientation; the q and e keys then turn the
\* camera about the y axis
TurnedRotation ==
    [resetCameraOrientation(rotation) EXCEPT
        !.y = @ + (IF Held("q") THEN rotateSpeed ELSE 0)
                - (IF Held("e") THEN rotateSpeed ELSE 0)]

\* the turns the model follows: MaxTurn mouse movements to either side
InTurned(r) == Abs(r.y) <= MaxTurn * LookStep

ResolvedCameraNoRevert ==
    IF ~Moved THEN camera
    ELSE [x |-> Clamp(MovedCamera.x), z |-> Clamp(MovedCamera.z)]

ResolvedCameraPartial ==
    IF ~Moved THEN camera
    ELSE LET c == IF Collides(MovedCamera)
                    THEN [x |-> camera.x, z |-> MovedCamera.z] ELSE MovedCamera
         IN [x |-> Clamp(c.x), z |-> Clamp(c.z)]

\* collision revert, then the map-boundary clamp
ResolvedCamera ==
    IF ~Moved THEN camera
    ELSE LET c == IF Collides(MovedCamera) THEN camera ELSE MovedCamera
         IN [x |-> Clamp(c.x), z |-> Clamp(c.z)]

\* the part of the map the model walks: MaxWalk steps around each sample
InExplored(c) ==
    \E s \in CameraSamples :
        /\ Abs(c.x - s.x) <= MaxWalk * moveSpeed
        /\ Abs(c.z - s.z) <= MaxWalk * moveSpeed

InExploredNPC(p) ==
    \E s \in NPCSamples :
        /\ Abs(p.x - s.x) <= MaxWalk * npcStep
        /\ Abs(p.z - s.z) <= MaxWalk * npcStep

\* the NPC part of updateGame for the NPCs followed; it runs in every frame
NPCsAfterFrame ==
    { f \in [DOMAIN npcKin -> UNION { NPCFrame(npcKin[i]) : i \in DOMAIN npcKin }] :
        \A i \in DOMAIN npcKin : f[i] \in NPCFrame(npcKin[i]) }

updateGame ==
    /\ listening
    /\ npcKin' \in NPCsAfterFrame
    /\ \A i \in DOMAIN npcKin : InExploredNPC(npcKin'[i].position)
    /\ IF ~closure.gameStarted
         THEN /\ UNCHANGED << camera, rotation, nearWaterTank, refilling,
                              refillIntervalRef, currentWaterLevel, liveIntervals >>
              /\ lastEvent' = Quiet("frame")
         ELSE LET near == PlayerNearTub(ResolvedCamera, waterTubs)
                  rs1 == IF Held("r") /\ RefillGuard
                           THEN startRefilling(RefillState) ELSE RefillState
                  rs2 == IF ~near /\ closure.nearWaterTank /\ closure.refilling
                           THEN stopRefilling(rs1) ELSE rs1
              IN /\ InExplored(ResolvedCamera)
                 /\ camera' = ResolvedCamera
                 /\ rotation' = TurnedRotation
                 /\ InTurned(TurnedRotation)
                 /\ SetRefillState(rs2)
                 /\ nearWaterTank' = IF near # closure.nearWaterTank
                                       THEN near ELSE nearWaterTank
                 /\ lastEvent' = [Quiet("frame") EXCEPT
                                    !.revert = Moved /\ Collides(MovedCamera)]
    /\ UNCHANGED << isLoading, gameStarted, score, waterLevel, closure,
                    listening, keysPressed, waterTubs, npcs, effectTimers,
                    mounted, isMouseLocked >>

(***************************************************************************)
(* NPC.getColored and handleShoot.                                         *)
(***************************************************************************)
getColoredUnbounded(npc) ==
    [colorLevel |-> npc.colorLevel + 1, isColored |-> TRUE]

getColored(npc) ==
    IF npc.colorLevel >= MaxColorLevel THEN npc
    ELSE [colorLevel |-> npc.colorLevel + 1, isColored |-> TRUE]

ShootRejectedWaterOnly == closure.waterLevel <= 0

ShootRejectedLive == ~gameStarted \/ waterLevel <= 0

\* the early returns of handleShoot
ShootRejected == ~closure.gameStarted \/ closure.waterLevel <= 0

WaterAfterShotUnclamped(prev) == prev - ShotCost
WaterAfterShotOne(prev) == Max(0, prev - 1)

\* setWaterLevel(prev => Math.max(0, prev - 5))
WaterAfterShot(prev) == Max(0, prev - ShotCost)

\* setScore(prev => prev + 10)
ScoreAfterHit(prev) == prev + HitScore

ScoreForHitIfColoured(npc, prev) ==
    IF npc.colorLevel >= MaxColorLevel THEN prev ELSE ScoreAfterHit(prev)

\* if (hitNPC && hitPoint) { hitNPC.getColored(hitPoint); setScore(...) }:
\* the score rises whatever getColored did to the NPC
ScoreForHit(npc, prev) == ScoreAfterHit(prev)

\* what the ray met: the owner of intersects[0] (0: scenery, -1: the ray met
\* nothing) and the owner of the nearest intersection that belongs to an NPC
\* (0: no intersection does)
NearestOwner(intersects) ==
    IF intersects = << >> THEN -1 ELSE OwnerNPC(intersects[1])
NearestNPCOnRay(intersects) ==
    LET owned == { k \in 1..Len(intersects) : OwnerNPC(intersects[k]) > 0 }
    IN IF owned = {} THEN 0
       ELSE OwnerNPC(intersects[CHOOSE k \in owned : \A j \in owned : k <= j])

\* the index in intersects at which the for-loop of handleShoot stops: the
\* first intersection whose object is owned by an NPC, 0 if there is none
HitIndex(intersects) ==
    LET owned == { k \in 1..Len(intersects) : OwnerNPC(intersects[k]) > 0 }
    IN IF owned = {} THEN 0 ELSE CHOOSE k \in owned : \A j \in owned : k <= j

SplashPointCentre(i, hitPoint) == CentreOf(i)

\* the point NPC.getColored(hitPoint) hands to createColorSplash for NPC i
SplashPoint(i, hitPoint) == IF hitPoint # NoPoint THEN hitPoint ELSE CentreOf(i)

\* createSplashEffect (and NPC.createColorSplash): interval and timeout that
\* remove the particles later; n is the number of effects created
WithEffects(timers, n) ==
    IF timers = NotFollowed THEN NotFollowed ELSE Min(MaxEffects, timers + n)

handleShoot(intersects) ==
    /\ listening
    /\ IF ShootRejected
         THEN /\ lastEvent' = Quiet("shoot")
              /\ UNCHANGED << waterLevel, score, npcs, effectTimers >>
         ELSE LET hit == FirstNPCHit(intersects)
              IN /\ waterLevel' = WaterAfterShot(waterLevel)
                 /\ lastEvent' = [op |-> "shoot", ray |-> TRUE,
                                  nearest |-> NearestOwner(intersects),
                                  npcOnRay |-> NearestNPCOnRay(intersects),
                                  hit |-> hit,
                                  first |-> IF intersects = << >> THEN NoObject
                                            ELSE intersects[1],
                                  revert |-> FALSE,
                                  splash |->
                                    IF hit > 0 /\ npcs[hit].colorLevel < MaxColorLevel
                                      THEN SplashPoint(hit, ImpactPoint(HitIndex(intersects)))
                                      ELSE NoPoint]
                 /\ effectTimers' =
                       WithEffects(effectTimers,
                                   (IF intersects = << >> THEN 0 ELSE 1)
                                     + (IF hit > 0 /\ npcs[hit].colorLevel < MaxColorLevel
                                          THEN 1 ELSE 0))
                 /\ IF hit > 0
                      THEN /\ score < MaxScore
                           /\ npcs' = [npcs EXCEPT ![hit] = getColored(npcs[hit])]
                           /\ score' = ScoreForHit(npcs[hit], score)
                      ELSE UNCHANGED << score, npcs >>
    /\ UNCHANGED << isLoading, gameStarted, nearWaterTank, refilling, closure,
                    listening, refillIntervalRef, currentWaterLevel, keysPressed,
                    camera, waterTubs, npcKin, liveIntervals, mounted, rotation,
                    isMouseLocked >>

\* the setTimeout callback of a splash effect (2 s after the shot): it
\* clears the effect's interval and removes its particles from the scene
splashTimeout ==
    /\ effectTimers # NotFollowed
    /\ effectTimers > 0
    /\ effectTimers' = effectTimers - 1
    /\ lastEvent' = Quiet("splashTimeout")
    /\ UNCHANGED << isLoading, gameStarted, score, waterLevel, nearWaterTank,
                    refilling, closure, listening, refillIntervalRef,
                    currentWaterLevel, keysPressed, camera, waterTubs, npcs,
                    npcKin, liveIntervals, mounted, rotation, isMouseLocked >>

(***************************************************************************)
(* Mouse look.  Pointer lock is requested by handleContainerClick, which   *)
(* does nothing unless gameStarted; angles are in units of 0.001 rad, one  *)
(* unit per pixel of movement (trackpadSensitivity).                       *)
(***************************************************************************)
LookDeltas == {-LookStep, LookStep}

ClampPitchNone(v) == v

ClampPitch(v) == Max(-PitchLimit, Min(PitchLimit, v))

handleMouseMove(movementX, movementY) ==
    /\ listening
    /\ rotation' = IF isMouseLocked /\ closure.gameStarted
                     THEN resetCameraOrientation(
                            [rotation EXCEPT !.y = @ - movementX,
                                             !.x = ClampPitch(@ - movementY)])
                     ELSE rotation
    /\ InTurned(rotation')
    /\ lastEvent' = Quiet("other")
    /\ UNCHANGED << isLoading, gameStarted, score, waterLevel, nearWaterTank,
                    refilling, closure, listening, refillIntervalRef,
                    currentWaterLevel, keysPressed, camera, waterTubs, npcs,
                    npcKin, liveIntervals, effectTimers, mounted, isMouseLocked >>

MouseMove == \E mx \in LookDeltas, my \in LookDeltas : handleMouseMove(mx, my)

\* handleContainerClick (the container's onClick, of the current render):
\* in a started session without the lock it requests the pointer lock; the
\* browser grants it and handlePointerLockChange records it
handleContainerClick ==
    /\ mounted
    /\ listening
    /\ isMouseLocked' = (isMouseLocked \/ gameStarted)
    /\ lastEvent' = Quiet("other")
    /\ UNCHANGED << isLoading, gameStarted, score, waterLevel, nearWaterTank,
                    refilling, closure, listening, refillIntervalRef,
                    currentWaterLevel, keysPressed, camera, waterTubs, npcs,
                    npcKin, liveIntervals, effectTimers, mounted, rotation >>

\* handlePointerLockChange when the lock is released (Escape)
handlePointerLockChange ==
    /\ listening
    /\ isMouseLocked
    /\ isMouseLocked' = FALSE
    /\ lastEvent' = Quiet("other")
    /\ UNCHANGED << isLoading, gameStarted, score, waterLevel, nearWaterTank,
                    refilling, closure, listening, refillIntervalRef,
                    currentWaterLevel, keysPressed, camera, waterTubs, npcs,
                    npcKin, liveIntervals, effectTimers, mounted, rotation >>

KeyDown == \E key \in Keys : handleKeyDown(key)
KeyUp == \E key \in Keys : handleKeyUp(key)
Shoot == \E intersects \in IntersectLists : handleShoot(intersects)

Next ==
    \/ handleLoadingComplete
    \/ startGame
    \/ KeyDown
    \/ KeyUp
    \/ MouseMove
    \/ updateGame
    \/ Shoot

Spec == Init /\ [][Next]_vars

(***************************************************************************)
(* The refill code in the environment it is written for.  In Spec the      *)
(* handlers are attached from renders in which nearWaterTank is FALSE, so  *)
(* RefillGuard is never true and startRefilling never runs.  SpecRefill    *)
(* runs the same handlers as attached from a render of a started session   *)
(* in which the player stands next to a tub and the water level is w.  The  *)
(* score starts one hit below the cap of the model, which leaves the state *)
(* space to the interleavings of shots, keys, frames and refill ticks.     *)
(***************************************************************************)
RefillStartLevels == {96}

InitRefill ==
    /\ isLoading = FALSE
    /\ gameStarted = TRUE
    /\ score = MaxScore - HitScore
    /\ waterLevel \in RefillStartLevels
    /\ nearWaterTank = TRUE
    /\ refilling = FALSE
    /\ closure = [gameStarted |-> TRUE, nearWaterTank |-> TRUE,
                  refilling |-> FALSE, waterLevel |-> waterLevel]
    /\ listening = TRUE
    /\ refillIntervalRef = 0
    /\ currentWaterLevel = waterLevel
    /\ keysPressed = {}
    /\ camera = StartCamera
    /\ waterTubs \in TubLayouts
    /\ npcs = FreshNPCs
    /\ lastEvent = Quiet("start")
    /\ npcKin = << >>
    /\ liveIntervals = 0
    /\ effectTimers = NotFollowed
    /\ mounted = TRUE
    /\ rotation = NoRotation
    /\ isMouseLocked = FALSE

NextRefill ==
    \/ KeyDown
    \/ KeyUp
    \/ updateGame
    \/ Shoot
    \/ refillTick

SpecRefill == InitRefill /\ [][NextRefill]_vars

(***************************************************************************)
(* The same session with the cosmetic timers followed and the component    *)
(* unmounted at any moment.                                                *)
(***************************************************************************)
InitTeardown ==
    /\ isLoading = FALSE
    /\ gameStarted = TRUE
    /\ score = MaxScore - HitScore
    /\ waterLevel \in RefillStartLevels
    /\ nearWaterTank = TRUE
    /\ refilling = FALSE
    /\ closure = [gameStarted |-> TRUE, nearWaterTank |-> TRUE,
                  refilling |-> FALSE, waterLevel |-> waterLevel]
    /\ listening = TRUE
    /\ refillIntervalRef = 0
    /\ currentWaterLevel = waterLevel
    /\ keysPressed = {}
    /\ camera = StartCamera
    /\ waterTubs \in TubLayouts
    /\ npcs = FreshNPCs
    /\ lastEvent = Quiet("start")
    /\ npcKin = << >>
    /\ liveIntervals = 0
    /\ effectTimers = 0
    /\ mounted = TRUE
    /\ rotation = NoRotation
    /\ isMouseLocked = FALSE

NextTeardown ==
    \/ KeyDown
    \/ KeyUp
    \/ updateGame
    \/ Shoot
    \/ refillTick
    \/ splashTimeout
    \/ unmount

SpecTeardown == InitTeardown /\ [][NextTeardown]_vars

(***************************************************************************)
(* A started session at the places of the map where a frame has something  *)
(* to decide.  The handlers are the ones attached by startGame's render:   *)
(* they read nearWaterTank = FALSE, refilling = FALSE, waterLevel = 100.   *)
(* SpecPlayer walks the player with all four movement keys after one shot  *)
(* was fired; SpecNPC follows one NPC (NPCs do not interact) while the     *)
(* player walks forward; SpecScene fires at every kind of mesh.            *)
(***************************************************************************)
StartedSession ==
    /\ isLoading = FALSE
    /\ gameStarted = TRUE
    /\ score = 0
    /\ refilling = FALSE
    /\ closure = [gameStarted |-> TRUE, nearWaterTank |-> FALSE,
                  refilling |-> FALSE, waterLevel |-> FullWater]
    /\ listening = TRUE
    /\ refillIntervalRef = 0
    /\ currentWaterLevel = FullWater
    /\ keysPressed = {}
    /\ waterTubs \in TubLayouts
    /\ npcs = FreshNPCs
    /\ lastEvent = Quiet("start")
    /\ liveIntervals = 0
    /\ effectTimers = NotFollowed
    /\ mounted = TRUE
    /\ rotation = NoRotation
    /\ isMouseLocked = FALSE

MoveKeys == {"w", "a", "s", "d", "r"}
MoveKeyDown == \E key \in MoveKeys : handleKeyDown(key)
MoveKeyUp == \E key \in MoveKeys : handleKeyUp(key)

InitPlayer ==
    /\ StartedSession
    /\ waterLevel = FullWater - ShotCost
    /\ camera \in CameraSamples
    /\ nearWaterTank \in BOOLEAN
    /\ npcKin = << >>

NextPlayer ==
    \/ MoveKeyDown
    \/ MoveKeyUp
    \/ updateGame

SpecPlayer == InitPlayer /\ [][NextPlayer]_vars

FollowedNPCs == {1}

InitNPC ==
    /\ StartedSession
    /\ waterLevel = FullWater
    /\ camera \in CameraSamples
    /\ nearWaterTank \in BOOLEAN
    /\ npcKin \in [FollowedNPCs ->
                      { [position |-> p, moveDirection |-> d, rerolled |-> FALSE,
                         gen |-> 2] :
                          p \in NPCSamples, d \in RandomDirections }]

NextNPC ==
    \/ KeyDown
    \/ KeyUp
    \/ updateGame

SpecNPC == InitNPC /\ [][NextNPC]_vars

InitScene ==
    /\ StartedSession
    /\ waterLevel = FullWater
    /\ camera = StartCamera
    /\ nearWaterTank = FALSE
    /\ npcKin = << >>

ShootScene == \E intersects \in SceneIntersectLists : handleShoot(intersects)

NextScene ==
    \/ ShootScene
    \/ updateGame

SpecScene == InitScene /\ [][NextScene]_vars

\* the component from its first render with one NPC followed: it does not
\* exist until setupGame has run
NoNPC ==
    [position |-> [x |-> 0, z |-> 0], moveDirection |-> [x |-> 0, z |-> 0],
     rerolled |-> FALSE, gen |-> 0]

InitIdle ==
    /\ InitComponent
    /\ npcKin = [i \in FollowedNPCs |-> NoNPC]

NextIdle ==
    \/ handleLoadingComplete
    \/ startGame
    \/ KeyDown
    \/ KeyUp
    \/ updateGame

SpecIdle == InitIdle /\ [][NextIdle]_vars

\* The frame callback statement by statement.  updateGame runs to the end
\* before any other handler can run; here its three parts are separate
\* steps, in the order of the source, and lastEvent.op is the part that ran
\* last.  Handlers run only between frames.
MidFrame == lastEvent.op \in {"frameNPCs", "framePlayer"}

\* npcsRef.current.forEach(...): update, clamp and obstacle avoidance
frameNPCs ==
    /\ listening
    /\ ~MidFrame
    /\ npcKin' \in NPCsAfterFrame
    /\ \A i \in DOMAIN npcKin : InExploredNPC(npcKin'[i].position)
    /\ lastEvent' = Quiet("frameNPCs")
    /\ UNCHANGED << isLoading, gameStarted, score, waterLevel, nearWaterTank,
                    refilling, closure, listening, refillIntervalRef,
                    currentWaterLevel, keysPressed, camera, waterTubs, npcs,
                    liveIntervals, effectTimers, mounted, rotation, isMouseLocked >>

\* the movement and turn keys, the check of the held R key, the collision
\* revert and the boundary clamp
framePlayer ==
    /\ lastEvent.op = "frameNPCs"
    /\ IF ~closure.gameStarted
         THEN /\ UNCHANGED << camera, rotation, refilling, refillIntervalRef,
                              currentWaterLevel, liveIntervals >>
              /\ lastEvent' = Quiet("framePlayer")
         ELSE /\ InExplored(ResolvedCamera)
              /\ InTurned(TurnedRotation)
              /\ camera' = ResolvedCamera
              /\ rotation' = TurnedRotation
              /\ SetRefillState(IF Held("r") /\ RefillGuard
                                  THEN startRefilling(RefillState) ELSE RefillState)
              /\ lastEvent' = [Quiet("framePlayer") EXCEPT
                                 !.revert = Moved /\ Collides(MovedCamera)]
    /\ UNCHANGED << isLoading, gameStarted, score, waterLevel, nearWaterTank,
                    closure, listening, keysPressed, waterTubs, npcs, npcKin,
                    effectTimers, mounted, isMouseLocked >>

\* the proximity test on the water tubs, the stop of a refill on leaving and
\* the update of the in-range flag
frameStations ==
    /\ lastEvent.op = "framePlayer"
    /\ IF ~closure.gameStarted
         THEN UNCHANGED << nearWaterTank, refilling, refillIntervalRef,
                           currentWaterLevel, liveIntervals >>
         ELSE LET near == PlayerNearTub(camera, waterTubs)
              IN /\ SetRefillState(IF ~near /\ closure.nearWaterTank /\ closure.refilling
                                     THEN stopRefilling(RefillState) ELSE RefillState)
                 /\ nearWaterTank' = IF near # closure.nearWaterTank
                                       THEN near ELSE nearWaterTank
    /\ lastEvent' = [Quiet("frameStations") EXCEPT !.revert = lastEvent.revert]
    /\ UNCHANGED << isLoading, gameStarted, score, waterLevel, closure,
                    listening, keysPressed, camera, waterTubs, npcs, npcKin,
                    effectTimers, mounted, rotation, isMouseLocked >>

BetweenFramesKeyDown == ~MidFrame /\ KeyDown
BetweenFramesKeyUp == ~MidFrame /\ KeyUp

NextFrame ==
    \/ BetweenFramesKeyDown
    \/ BetweenFramesKeyUp
    \/ frameNPCs
    \/ framePlayer
    \/ frameStations

SpecFrame == InitNPC /\ [][NextFrame]_vars

\* the same session with the pointer lock, mouse look and the turn keys
TurnKeys == {"q", "e"}
TurnKeyDown == \E key \in TurnKeys : handleKeyDown(key)
TurnKeyUp == \E key \in TurnKeys : handleKeyUp(key)

NextLook ==
    \/ handleContainerClick
    \/ handlePointerLockChange
    \/ MouseMove
    \/ TurnKeyDown
    \/ TurnKeyUp
    \/ updateGame

SpecLook == InitScene /\ [][NextLook]_vars

\* the same session walking forward while turning
InitTurn ==
    /\ StartedSession
    /\ waterLevel = FullWater
    /\ camera \in CameraSamples
    /\ nearWaterTank = FALSE
    /\ npcKin = << >>

WalkTurnKeys == {"w", "q", "e"}
WalkTurnKeyDown == \E key \in WalkTurnKeys : handleKeyDown(key)
WalkTurnKeyUp == \E key \in WalkTurnKeys : handleKeyUp(key)

NextTurn ==
    \/ WalkTurnKeyDown
    \/ WalkTurnKeyUp
    \/ updateGame

SpecTurn == InitTurn /\ [][NextTurn]_vars

\* the same session with rays that meet up to MaxIntersects objects, walls
\* in front of NPCs included, from full water and score 0
NextShots ==
    \/ Shoot
    \/ updateGame

SpecShots == InitScene /\ [][NextShots]_vars

(***************************************************************************)
(* Properties.                                                             *)
(***************************************************************************)
ShotStep == lastEvent'.op = "shoot"
InRange == PlayerNearTub(camera, waterTubs)
Started == gameStarted

\* C1: a shoot attempt made at water level 0, or while the session is not
\* Started, is rejected entirely: water level, score and every NPC are
\* unchanged and no ray is cast.
C1_RejectedShotChangesNothing ==
    [][ (ShotStep /\ (waterLevel = 0 \/ ~Started))
          => (/\ waterLevel' = waterLevel
              /\ score' = score
              /\ npcs' = npcs
              /\ ~lastEvent'.ray) ]_vars

\* C2: in every reachable state the water level is an integer in [0,100],
\* and it is 100 until the session starts.
C2_WaterInRange ==
    /\ waterLevel \in 0..FullWater
    /\ (~Started => waterLevel = FullWater)

C2_Witness ==
    /\ Started
    /\ lastEvent.op = "shoot"
    /\ lastEvent.ray
    /\ waterLevel = 0

\* C3: every shoot action taken while Started with water level w > 0 sets
\* the water level to max(0, w - 5), whether the ray hits an NPC, only
\* scenery, or nothing.
C3_ShotCostsFive ==
    [][ (ShotStep /\ Started /\ waterLevel > 0)
          => waterLevel' = (IF waterLevel >= 5 THEN waterLevel - 5 ELSE 0) ]_vars

C3_Witness ==
    /\ Started
    /\ lastEvent.op = "shoot"
    /\ lastEvent.ray
    /\ lastEvent.nearest = 0
    /\ lastEvent.hit = 0
    /\ waterLevel = 90

C5_HoldInRangeStartsRefill ==
    [][ (/\ Started
         /\ InRange /\ nearWaterTank
         /\ ~refilling
         /\ waterLevel < FullWater
         /\ "r" \notin keysPressed /\ "r" \in keysPressed')
          => (refilling' /\ refillIntervalRef' # 0) ]_vars

\* C6: a refill-hold input (the refill key going down, or a frame with the
\* key held) never starts refilling when the player is not in range of any
\* station, when the state is already Refilling, or when the water level is
\* already 100: refill state and water level stay as they are and no timer
\* is created.
C6_RefillStartRejected ==
    [][ (/\ lastEvent'.op \in {"other", "frame"}
         /\ "r" \in keysPressed'
         /\ \/ ~InRange
            \/ ~nearWaterTank
            \/ refilling
            \/ waterLevel = FullWater)
          => (/\ ~(refilling' /\ ~refilling)
              /\ ~(refillIntervalRef' # 0 /\ refillIntervalRef = 0)
              /\ waterLevel' = waterLevel) ]_vars

C6_Witness ==
    /\ Started
    /\ "r" \in keysPressed
    /\ ~InRange
    /\ waterLevel < FullWater
    /\ lastEvent.op = "other"
    /\ ~refilling
    /\ refillIntervalRef = 0

C8_ScoreOnlyByAcceptedHit ==
    /\ score = 0
    /\ [][ score' # score
             => (/\ score' = score + 10
                 /\ ShotStep
                 /\ lastEvent'.hit \in NPCIds
                 /\ Started
                 /\ waterLevel > 0) ]_vars

\* C9: for every NPC colorLevel starts at 0, stays in [0,3], never
\* decreases, rises by exactly 1 per hit while below 3, and a hit at
\* colorLevel 3 leaves colorLevel and isColored unchanged; isColored is true
\* from the first hit on and never resets.
HitOn(i) == ShotStep /\ lastEvent'.hit = i /\ score' # score

C9_ColorLevel ==
    /\ \A i \in NPCIds : npcs[i].colorLevel = 0 /\ ~npcs[i].isColored
    /\ [](\A i \in NPCIds : /\ npcs[i].colorLevel \in 0..3
                            /\ npcs[i].isColored = (npcs[i].colorLevel > 0))
    /\ [][ \A i \in NPCIds :
             /\ npcs'[i].colorLevel >= npcs[i].colorLevel
             /\ (npcs[i].isColored => npcs'[i].isColored)
             /\ (npcs'[i] # npcs[i] => HitOn(i))
             /\ (HitOn(i) /\ npcs[i].colorLevel < 3
                   => (/\ npcs'[i].colorLevel = npcs[i].colorLevel + 1
                       /\ npcs'[i].isColored))
             /\ (HitOn(i) /\ npcs[i].colorLevel = 3 => npcs'[i] = npcs[i]) ]_vars

C9_Witness ==
    /\ lastEvent.op = "shoot"
    /\ lastEvent.hit = 1
    /\ score = 40
    /\ npcs[1] = [colorLevel |-> 3, isColored |-> TRUE]
    /\ \A i \in NPCIds \ {1} : npcs[i].colorLevel = 0

Chain(o) ==
    LET p1 == Parent(o)
        p2 == Parent(p1)
        p3 == Parent(p2)
        p4 == Parent(p3)
    IN {o, p1, p2, p3, p4} \ {NoObject}

\* C11: the object a ray meets is attributed to NPC i (and i is the NPC hit)
\* iff the model of NPC i is the object or one of its ancestors at any
\* depth, e.g. a splash mark under a body part; an object with no NPC model
\* among its ancestors is attributed to no NPC and nothing is hit.
C11_AncestorAttribution ==
    [][ (ShotStep /\ lastEvent'.ray /\ lastEvent'.first # NoObject)
          => LET o == lastEvent'.first
             IN /\ \A i \in NPCIds :
                      (lastEvent'.nearest = i) <=> (<< "model", i >> \in Chain(o))
                /\ (lastEvent'.nearest = 0)
                      <=> (\A i \in NPCIds : << "model", i >> \notin Chain(o))
                /\ lastEvent'.hit = lastEvent'.nearest
                /\ (lastEvent'.hit = 0 => (score' = score /\ npcs' = npcs)) ]_vars

C11_Witness ==
    /\ lastEvent.op = "shoot"
    /\ lastEvent.first = << "dripMesh", 1 >>
    /\ lastEvent.hit = 1
    /\ npcs[1].colorLevel = 1
    /\ score = 10

C13_CollisionFullRevert ==
    [][ (Started /\ Moved /\ Collides(MovedCamera))
          => (camera'.x = camera.x /\ camera'.z = camera.z) ]_vars

\* a frame next to the first wall with forward and right held reverted the
\* movement: forward alone would have been free
C13_Witness ==
    /\ lastEvent.revert
    /\ {"w", "d"} \subseteq keysPressed
    /\ keysPressed \cap {"a", "s"} = {}
    /\ camera = [x |-> 129, z |-> 2]
    /\ ~Collides([x |-> camera.x, z |-> camera.z - moveSpeed])
    /\ Collides(MovedCamera)

\* the session state the flags encode
Session ==
    IF isLoading THEN "Loading" ELSE IF gameStarted THEN "Started" ELSE "Idle"

\* C14: the session only moves forward Loading -> Idle -> Started: it begins
\* in Loading, Started is never entered while loading, no state is left
\* backwards or re-entered, and once Started it stays Started.
C14_SessionForwardOnly ==
    /\ Session = "Loading"
    /\ [](~(isLoading /\ gameStarted))
    /\ [][ /\ (Session = "Loading" => Session' \in {"Loading", "Idle"})
           /\ (Session = "Idle" => Session' \in {"Idle", "Started"})
           /\ (Session = "Started" => Session' = "Started")
           /\ (gameStarted => gameStarted')
           /\ (~isLoading => ~isLoading') ]_vars

C14_Witness ==
    /\ Session = "Started"
    /\ lastEvent.op = "shoot"
    /\ score = MaxScore
    /\ waterLevel = 0

\* C15: while the session is not Started, movement keys, look input, the
\* refill key and clicks have no effect: player position and orientation,
\* the pressed-key set, water level, score, refill state and every NPC's
\* colorLevel keep their initial values.
C15_NoEffectBeforeStart ==
    ~Started =>
        /\ camera = StartCamera
        /\ rotation = NoRotation
        /\ keysPressed = {}
        /\ waterLevel = FullWater
        /\ score = 0
        /\ ~refilling /\ refillIntervalRef = 0 /\ liveIntervals = 0
        /\ ~nearWaterTank
        /\ \A i \in NPCIds : npcs[i].colorLevel = 0 /\ ~npcs[i].isColored

\* a click was handled while the session was loaded and not started
C15_Witness ==
    /\ ~Started
    /\ ~isLoading
    /\ listening
    /\ lastEvent.op = "shoot"
    /\ ~lastEvent.ray
    /\ waterLevel = FullWater

\* C16: at most one refill timer exists at any time, and whenever the refill
\* state is not Refilling no refill timer is active (every transition out of
\* Refilling clears the timer).
C16_AtMostOneRefillTimer ==
    /\ liveIntervals \in {0, 1}
    /\ (~refilling => liveIntervals = 0)
    /\ (liveIntervals = 1 => refillIntervalRef = 1)

\* a refill ended by the tick that reached 100, with the key still held
C16_Witness ==
    /\ lastEvent.op = "refillTick"
    /\ waterLevel = FullWater
    /\ ~refilling
    /\ liveIntervals = 0
    /\ refillIntervalRef = 0
    /\ "r" \in keysPressed

\* C17: after teardown (the cleanup of the component) no pending refill
\* timer, cosmetic effect timer or animation-frame callback fires or
\* changes state: all of them are cancelled at teardown.
C17_NothingFiresAfterTeardown ==
    /\ [][ ~mounted => (/\ lastEvent'.op \notin {"refillTick", "splashTimeout", "frame"}
                        /\ effectTimers' = effectTimers
                        /\ waterLevel' = waterLevel) ]_vars
    /\ [](~mounted => (liveIntervals = 0 /\ ~listening
                       /\ (effectTimers # NotFollowed => effectTimers = 0)))

FrameStep == lastEvent'.op = "frame"

\* C18: with the refill key held, the water below 100 and refilling stopped,
\* a frame of a player who is back in range of a station (the in-range flag
\* is set and the player stays in range) restarts refilling without a new
\* key press.
C18_ReenterRestartsRefill ==
    [][ (/\ FrameStep
         /\ Started
         /\ "r" \in keysPressed
         /\ ~refilling
         /\ waterLevel < FullWater
         /\ InRange /\ nearWaterTank
         /\ PlayerNearTub(camera', waterTubs))
          => (refilling' /\ liveIntervals' = 1) ]_vars

\* C19: after every frame of a started session the in-range flag equals
\* (some station is at distance below 3.0 from the player), which is the
\* test on the distance to the nearest station.
C19_FlagIsDistanceTest ==
    [][ (FrameStep /\ Started)
          => (nearWaterTank' = PlayerNearTub(camera', waterTubs)) ]_vars

Dot(u, v) == u.x * v.x + u.z * v.z

\* the obstacle -> NPC vector
FromObstacle(k, p) == [x |-> p.x - FineObstacle(k).x, z |-> p.z - FineObstacle(k).z]

\* C20: after a frame in which an NPC ends within 1.5 (ground plane) of an
\* obstacle, its moveDirection is the normalized vector from that obstacle
\* to the NPC, so the dot product of the two is positive, whatever random or
\* boundary re-roll NPC.update made in the same frame.
C20_AvoidanceDirection ==
    [][ FrameStep
          => \A i \in DOMAIN npcKin : \A k \in 1..Len(ObstacleList) :
                LET away == FromObstacle(k, npcKin'[i].position)
                IN Dot(away, away) < AvoidRange * AvoidRange
                     => /\ npcKin'[i].moveDirection = Normalize(away)
                        /\ Dot(npcKin'[i].moveDirection, away) > 0 ]_vars

\* an NPC walking east entered the range of the second wall and was turned
\* to the south-west, away from it
C20_Witness ==
    /\ lastEvent.op = "frame"
    /\ DOMAIN npcKin # {}
    /\ \A i \in DOMAIN npcKin :
          /\ npcKin[i].position = [x |-> 700, z |-> 2980]
          /\ npcKin[i].moveDirection = [x |-> -6, z |-> -8]

\* C21: an accepted hit at world point P on an NPC with colorLevel 0 makes
\* colorLevel 1 and isColored true, and the NPC's splash is created at
\* exactly P, the point where the ray meets the NPC (the first intersection
\* when the NPC is the nearest object, a later one when scenery is in front),
\* not at the NPC's centre.
C21_FirstHitSplashAtImpact ==
    [][ \A i \in NPCIds :
          (ShotStep /\ lastEvent'.hit = i /\ npcs[i].colorLevel = 0)
            => /\ npcs'[i] = [colorLevel |-> 1, isColored |-> TRUE]
               /\ \E k \in 1..MaxIntersects :
                     /\ lastEvent'.splash = ImpactPoint(k)
                     /\ (k = 1) <=> (lastEvent'.nearest = i)
               /\ lastEvent'.splash # CentreOf(i) ]_vars

\* the ray met a wall and then NPC 1: the splash is at the second impact
C21_Witness ==
    /\ lastEvent.op = "shoot"
    /\ lastEvent.nearest = 0
    /\ lastEvent.hit = 1
    /\ lastEvent.splash = ImpactPoint(2)
    /\ npcs[1] = [colorLevel |-> 1, isColored |-> TRUE]
    /\ score = HitScore

\* with the default Euler order the pitch is applied about the world x axis
\* after the yaw, which tilts the horizon when both are non-zero
Banked(r) == r.z # 0 \/ (r.order = "XYZ" /\ r.x # 0 /\ r.y # 0)

\* C22: after any sequence of look inputs and frames the player's pitch is
\* within [-pi/3, +pi/3] and the roll is 0 (no banking).
C22_PitchClampedNoRoll ==
    /\ rotation.x \in -PitchLimit..PitchLimit
    /\ rotation.z = 0
    /\ ~Banked(rotation)

\* the player looked up twice (the second movement was cut at the limit) and
\* turned with a key
C22_Witness ==
    /\ isMouseLocked
    /\ rotation.x = PitchLimit
    /\ rotation.y = LookStep + rotateSpeed
    /\ rotation.order = "YXZ"
    /\ lastEvent.op = "frame"

\* C23: NPC updates (translation and direction changes) are driven only in
\* frames of a Started session: while the session is loaded and not yet
\* started no NPC's position or direction changes.
C23_NPCsStillBeforeStart ==
    [][ (Session = "Idle" /\ Session' = "Idle") => npcKin' = npcKin ]_vars

\* C24: within each frame callback the components run in the fixed order
\* Player Controller (movement and collision), then Refill Station Manager
\* (proximity and refill gating), then NPC updates.
C24_FrameOrderPlayerStationsNPCs ==
    [][ /\ (lastEvent'.op = "framePlayer"
              => lastEvent.op \notin {"frameNPCs", "framePlayer"})
        /\ (lastEvent'.op = "frameStations" => lastEvent.op = "framePlayer")
        /\ (lastEvent'.op = "frameNPCs" => lastEvent.op = "frameStations") ]_vars

\* the world boundary on a ground axis is reached or passed
AtOrBeyondBoundary(p) == Abs(p.x) >= NPCHalfMap \/ Abs(p.z) >= NPCHalfMap

\* C25: whenever an NPC's update moves it to or beyond a world boundary on
\* either ground axis, its direction is re-rolled in that same update and
\* its position is back within bounds when the update returns.
C25_BoundaryRerollAndClamp ==
    [][ FrameStep
          => \A i \in DOMAIN npcKin :
                AtOrBeyondBoundary(MovedNPC(npcKin[i]))
                  => /\ npcKin'[i].rerolled
                     /\ ~OutOfBounds(npcKin'[i].position) ]_vars

\* C26: world setup runs exactly once per session: the NPC set is created
\* once, its size never changes afterwards, and no NPC is removed or
\* replaced at any later point, neither by the start action nor otherwise.
C26_WorldSetupOnce ==
    [][ /\ DOMAIN npcKin' = DOMAIN npcKin
        /\ DOMAIN npcs' = DOMAIN npcs
        /\ \A i \in DOMAIN npcKin :
              npcKin[i].gen > 0 => npcKin'[i].gen = npcKin[i].gen ]_vars

\* what the handlers attached by the effect of the Start render captured
CapturedAtStart ==
    [gameStarted |-> TRUE, nearWaterTank |-> FALSE, refilling |-> FALSE,
     waterLevel |-> FullWater]

\* C27: the listeners and the frame callback are registered only when
\* isLoading or gameStarted changes, so for the whole Started session the
\* shoot guard, both refill-start guards and the range-change detection read
\* the values captured at that registration (water 100, not near a tub, not
\* refilling): a click casts its ray whatever the current water level, no
\* refill is ever started, and a frame can only set the in-range flag.
C27_GuardsReadCapturedValues ==
    /\ []((Started /\ listening) => closure = CapturedAtStart)
    /\ [][ Started =>
             /\ (ShotStep => lastEvent'.ray)
             /\ ~refilling' /\ refillIntervalRef' = 0
             /\ (FrameStep =>
                   nearWaterTank' = (nearWaterTank \/ PlayerNearTub(camera', waterTubs)))
          ]_vars

\* the water is used up and a click still cast a ray; the player has walked
\* out of range with R held and the flag still says in range
C27_Witness ==
    /\ Started
    /\ waterLevel = 0
    /\ score = 0
    /\ lastEvent.op = "shoot" /\ lastEvent.ray
    /\ nearWaterTank /\ ~InRange
    /\ "r" \in keysPressed
    /\ ~refilling

RECURSIVE SumColorLevels(_)
\* the sum of the colorLevels of the NPCs in S
SumColorLevels(S) ==
    IF S = {} THEN 0
    ELSE LET i == CHOOSE j \in S : TRUE
         IN npcs[i].colorLevel + SumColorLevels(S \ {i})

\* C28: an accepted shot attributed to an NPC that is already at colorLevel
\* 3 still adds 10 to the score while that NPC's colorLevel and isColored
\* stay unchanged (so the score can exceed 10 times the sum of the
\* colorLevels of all NPCs).
C28_HitAtLevelThreeStillScores ==
    [][ \A i \in NPCIds :
          (ShotStep /\ lastEvent'.ray /\ lastEvent'.hit = i
             /\ npcs[i].colorLevel = MaxColorLevel)
            => /\ score' = score + 10
               /\ npcs' = npcs
               /\ score' > 10 * SumColorLevels(NPCIds) ]_vars

\* NPC 1 was hit four times: the score is above ten times the colorLevels
C28_Witness ==
    /\ lastEvent.op = "shoot"
    /\ lastEvent.hit = 1
    /\ npcs[1].colorLevel = MaxColorLevel
    /\ score = 4 * HitScore
    /\ score > 10 * SumColorLevels(NPCIds)

\* C29: with the five walls on the circle of radius mapSize / 4 and the
\* player starting at (0, 10), the player's position at the end of every
\* frame is at ground distance of at least 1.0 from the centre of every
\* obstacle, with the boundary clamp applied after the collision revert and
\* with turn-only frames running the collision check too.
C29_ClearOfObstacles ==
    \A o \in Obstacles :
        (o.x - camera.x) * (o.x - camera.x) + (o.z - camera.z) * (o.z - camera.z)
            >= CollisionRange * CollisionRange

\* the player turned right towards the first wall, walked into its range
\* and was put back, in a frame that also turned the camera
C29_Witness ==
    /\ lastEvent.op = "frame"
    /\ lastEvent.revert
    /\ {"w", "e"} \subseteq keysPressed
    /\ rotation.y < 0
    /\ camera.x > 129 /\ camera.x < 150
    /\ Collides(MovedCamera)

\* the square of the ground-plane distance from position c to the nearest tub
NearestTubHorizontalSq(c) ==
    LET d(tub) == (tub.x - c.x) * (tub.x - c.x) + (tub.z - c.z) * (tub.z - c.z)
        t == CHOOSE a \in waterTubs : \A b \in waterTubs : d(a) <= d(b)
    IN d(t)

\* C30: station proximity is the 3D distance from the player's eye (height
\* 1.7) to the station's base (height 0): a frame finds the player in range
\* iff horizontalDistance^2 + 1.7^2 < 3.0^2 for the nearest station, so a
\* player at a horizontal distance between about 2.47 and 3.0 is not found
\* in range.
C30_ProximityIsEyeToBase ==
    [][ (FrameStep /\ Started /\ ~nearWaterTank)
          => LET h2 == NearestTubHorizontalSq(camera')
             IN /\ nearWaterTank' <=> (h2 + 34 * 34 < 60 * 60)
                /\ (h2 >= 2444 /\ h2 < 3600) => ~nearWaterTank' ]_vars

\* a frame took the player to 2.49 (ground plane) from the nearest tub and
\* did not find the player in range
C30_Witness ==
    /\ lastEvent.op = "frame"
    /\ ~nearWaterTank
    /\ camera = [x |-> 0, z |-> StartZ - moveSpeed]
    /\ NearestTubHorizontalSq(camera) = 2473

====
